---- MODULE Spec2Model ----
(***************************************************************************)
(* A model of site_rss_spider (src/main.go): the RSS cache shared by the   *)
(* HTTP handler generateRSSHandler, the refresh goroutines refreshCache    *)
(* started by initCache's sweeps and by stale reads, and the fetch and     *)
(* extract pipeline fetchAndGenerateRSS.                                   *)
(*                                                                         *)
(* Go strings are TLA+ strings (Len, SubSeq and \o act on them).  The two  *)
(* site names of the registry are written in ASCII, the parser accepting   *)
(* no other characters.  Time is counted in minutes.                       *)
(***************************************************************************)
EXTENDS Integers, Sequences, FiniteSets, Bags, TLC

(***************************************************************************)
(* Bounds of the model.                                                    *)
(***************************************************************************)
\* HTTP requests served, numbered in arrival order
NumRequests == 2
\* the clock stops after this many steps of ClockStep minutes
MaxClockSteps == 1
\* item containers in a fetched document (extraction specification)
MaxItems == 2

(***************************************************************************)
(* Program constants.                                                      *)
(***************************************************************************)
\* time.Now().Add(10 * time.Minute)
TTL == 10
\* time.NewTicker(10 * time.Minute)
TickerInterval == 10
\* the clock is observed once per TTL
ClockStep == TTL
MaxTime == MaxClockSteps * ClockStep

(***************************************************************************)
(* The configuration registry.                                             *)
(***************************************************************************)
getAllSiteConfig ==
    [s \in {"example", "abc"} |->
        IF s = "example"
        THEN [Name |-> "ShiLiWangZhan", URL |-> "https://example.com",
              DateFormat |-> "2006-01-02"]
        ELSE [Name |-> "abcWangZhan", URL |-> "https://www.abc.com/",
              DateFormat |-> "2006-01-02"]]

\* a variant that gives a site without configuration the first one
getSiteConfigOrDefault(site) ==
    IF site \in DOMAIN getAllSiteConfig
    THEN [exists |-> TRUE, config |-> getAllSiteConfig[site]]
    ELSE [exists |-> TRUE, config |-> getAllSiteConfig["example"]]

\* config, exists := configs[site]
getSiteConfig(site) ==
    IF site \in DOMAIN getAllSiteConfig
    THEN [exists |-> TRUE, config |-> getAllSiteConfig[site]]
    ELSE [exists |-> FALSE,
          config |-> [Name |-> "", URL |-> "", DateFormat |-> ""]]

(***************************************************************************)
(* Strings and dates.                                                      *)
(***************************************************************************)
\* strings.HasPrefix
HasPrefix(s, prefix) ==
    /\ Len(s) >= Len(prefix)
    /\ SubSeq(s, 1, Len(prefix)) = prefix

Digits == "0123456789"

IsDigit(c) == \E i \in 1..10 : SubSeq(Digits, i, i) = c

DigitVal(c) == (CHOOSE i \in 1..10 : SubSeq(Digits, i, i) = c) - 1

Char(s, i) == SubSeq(s, i, i)

\* the decimal number written by the characters from..to of s
RECURSIVE Atoi(_, _, _)
Atoi(s, from, to) ==
    IF to < from THEN 0
    ELSE 10 * Atoi(s, from, to - 1) + DigitVal(Char(s, to))

\* n written with `width` digits, zero padded
RECURSIVE Itoa(_, _)
Itoa(n, width) ==
    IF width = 0 THEN ""
    ELSE Itoa(n \div 10, width - 1) \o Char(Digits, (n % 10) + 1)

IsLeap(y) == (y % 4 = 0) /\ ((y % 100 # 0) \/ (y % 400 = 0))

DaysIn(m, y) ==
    IF m = 2 THEN (IF IsLeap(y) THEN 29 ELSE 28)
    ELSE IF m \in {4, 6, 9, 11} THEN 30 ELSE 31

\* time.Parse with the layout "2006-01-02": four digits, '-', two digits,
\* '-', two digits, nothing after them, and a month and a day in range.
ParseDate(layout, value) ==
    IF /\ layout = "2006-01-02"
       /\ Len(value) = 10
       /\ \A i \in {1, 2, 3, 4, 6, 7, 9, 10} : IsDigit(Char(value, i))
       /\ Char(value, 5) = "-"
       /\ Char(value, 8) = "-"
    THEN LET y == Atoi(value, 1, 4)
             m == Atoi(value, 6, 7)
             d == Atoi(value, 9, 10)
         IN  IF m \in 1..12 /\ d \in 1..DaysIn(m, y)
             THEN [err |-> FALSE, year |-> y, month |-> m, day |-> d]
             ELSE [err |-> TRUE, year |-> 0, month |-> 0, day |-> 0]
    ELSE [err |-> TRUE, year |-> 0, month |-> 0, day |-> 0]

\* t.Format("2006-01-02 15:04:05") of a time.Parse result of that layout,
\* whose clock is midnight
FormatDate(t) ==
    Itoa(t.year, 4) \o "-" \o Itoa(t.month, 2) \o "-" \o Itoa(t.day, 2)
        \o " 00:00:00"

(***************************************************************************)
(* Documents: what the fetch collaborator returns.  A document is the      *)
(* sequence, in document order, of the containers its item selector        *)
(* matches; a sub-element of a container is its text (its href for the     *)
(* link) or Absent.                                                        *)
(***************************************************************************)
Sub(t) == [present |-> TRUE, text |-> t]

Absent == [present |-> FALSE, text |-> ""]

\* Selection.Text() and Selection.Attr("href"): "" when nothing matches
Text(sub) == IF sub.present THEN sub.text ELSE ""

Container(t, l, d, dt) == [title |-> t, href |-> l, desc |-> d, date |-> dt]

TitleSubs == {Absent, Sub("A")}
HrefSubs == {Absent, Sub("/posts/1"), Sub("p/2"), Sub("http://x.org/p")}
DescSubs == {Absent, Sub("d")}
DateSubs == {Absent, Sub("2024-02-29"), Sub("2023-02-29"), Sub("02/29")}

Containers ==
    {Container(t, l, d, dt) :
        t \in TitleSubs, l \in HrefSubs, d \in DescSubs, dt \in DateSubs}

\* every document of at most MaxItems containers
AllDocs == UNION {[1..n -> Containers] : n \in 0..MaxItems}

(***************************************************************************)
(* The pipeline: fetchAndGenerateRSS.                                      *)
(***************************************************************************)
NoFeed ==
    [Version |-> "",
     Channel |-> [Title |-> "", Link |-> "", Description |-> "",
                  Items |-> <<>>]]

\* a variant that gives up a container whose date does not parse
EachItemNeedsDate(config, s) ==
    LET title == Text(s.title)
        href == Text(s.href)
        link == IF ~HasPrefix(href, "http") THEN config.URL \o href ELSE href
        desc == Text(s.desc)
        dateStr == Text(s.date)
        t == ParseDate(config.DateFormat, dateStr)
        pubDate == IF dateStr # "" /\ ~t.err THEN FormatDate(t) ELSE ""
    IN  [emit |-> title # "" /\ link # "" /\ ~t.err,
         item |-> [Title |-> title, Link |-> link, Description |-> desc,
                   PubDate |-> pubDate, GUID |-> link]]

\* a variant that joins the base URL and a relative link with exactly one '/'
EachItemJoinsPath(config, s) ==
    LET title == Text(s.title)
        href == Text(s.href)
        base == IF Char(config.URL, Len(config.URL)) = "/"
                THEN SubSeq(config.URL, 1, Len(config.URL) - 1)
                ELSE config.URL
        path == IF href # "" /\ Char(href, 1) = "/"
                THEN SubSeq(href, 2, Len(href))
                ELSE href
        link == IF ~HasPrefix(href, "http") THEN base \o "/" \o path ELSE href
        desc == Text(s.desc)
        dateStr == Text(s.date)
        t == ParseDate(config.DateFormat, dateStr)
        pubDate == IF dateStr # "" /\ ~t.err THEN FormatDate(t) ELSE ""
    IN  [emit |-> title # "" /\ link # "",
         item |-> [Title |-> title, Link |-> link, Description |-> desc,
                   PubDate |-> pubDate, GUID |-> link]]

\* the body of the Each callback for the container s: the candidate item and
\* whether the gate title != "" && link != "" lets it through
EachItem(config, s) ==
    LET title == Text(s.title)
        href == Text(s.href)
        link == IF ~HasPrefix(href, "http") THEN config.URL \o href ELSE href
        desc == Text(s.desc)
        dateStr == Text(s.date)
        t == ParseDate(config.DateFormat, dateStr)
        pubDate == IF dateStr # "" /\ ~t.err THEN FormatDate(t) ELSE ""
    IN  [emit |-> title # "" /\ link # "",
         item |-> [Title |-> title, Link |-> link, Description |-> desc,
                   PubDate |-> pubDate, GUID |-> link]]

\* doc.Find(config.ItemSelector).Each(...): the items appended, in order
RECURSIVE ExtractItems(_, _)
ExtractItems(config, doc) ==
    IF doc = <<>> THEN <<>>
    ELSE LET e == EachItem(config, Head(doc))
         IN  (IF e.emit THEN <<e.item>> ELSE <<>>)
                 \o ExtractItems(config, Tail(doc))

\* the feed assembled after the loop
AssembleFeed(config, items) ==
    [Version |-> "2.0",
     Channel |-> [Title |-> config.Name, Link |-> config.URL,
                  Description |-> "RSS feed for " \o config.Name,
                  Items |-> items]]

\* what goquery.NewDocument returns: an error or a document
FetchFailed == [err |-> TRUE, doc |-> <<>>]

Fetched(doc) == [err |-> FALSE, doc |-> doc]

\* the whole pipeline, given what the fetch collaborator answers for the
\* site's URL (it is not asked when the site has no configuration)
fetchAndGenerateRSS(site, fetched) ==
    LET c == getSiteConfig(site)
    IN  IF ~c.exists THEN [err |-> "site configuration not found", feed |-> NoFeed]
        ELSE IF fetched.err THEN [err |-> "fetch failed", feed |-> NoFeed]
        ELSE [err |-> "nil",
              feed |-> AssembleFeed(c.config, ExtractItems(c.config, fetched.doc))]

(***************************************************************************)
(* The state.                                                              *)
(***************************************************************************)
VARIABLES
    cache,        \* the map cache: site -> FeedCache, a function on its keys
    cacheLock,    \* the sync.RWMutex: readers holding it, a writer holding it
    now,          \* time.Now(), in minutes
    nextTick,     \* when ticker.C delivers next
    requests,     \* the generateRSSHandler calls, a bag
    refreshers,   \* the running refreshCache goroutines, a bag
    pipeIn,       \* extraction specification: the pipeline's input
    pipeOut       \* extraction specification: the pipeline's result

vars ==
    <<cache, cacheLock, now, nextTick, requests, refreshers, pipeIn, pipeOut>>

\* the sites a request may name: a configured one, an unknown one, none
RequestSites == {"example", "nosuch", ""}

\* the documents a site's page may hold when fetched
SiteDocs(site) ==
    IF site = "example"
    THEN {<<Container(Sub("A"), Sub("/posts/1"), Sub("d"), Sub("2024-02-29")),
            Container(Sub("A"), Absent, Absent, Absent)>>,
          <<Container(Sub("A"), Sub("http://x.org/p"), Absent, Sub("02/29"))>>}
    ELSE {<<Container(Sub("A"), Sub("/posts/1"), Sub("d"), Absent)>>}

\* the answers of goquery.NewDocument for a site
FetchOutcomes(site) == {FetchFailed} \cup {Fetched(d) : d \in SiteDocs(site)}

\* the feeds a successful pipeline run can produce for a site
ProducibleFeeds(site) ==
    {fetchAndGenerateRSS(site, Fetched(d)).feed : d \in SiteDocs(site)}

NoEntry == [Feed |-> NoFeed, ExpireAt |-> 0]

NoResponse == [status |-> 0, feed |-> NoFeed]

\* a call of generateRSSHandler that has not arrived yet.  Beside the
\* handler's variables it records, as history, the path it took, the
\* goroutines and the fetches it started, and whether on arrival the site
\* had been served before.
IdleRequest ==
    [pc |-> "idle", site |-> "", cached |-> NoEntry, ok |-> FALSE,
     err |-> "nil", resp |-> NoResponse, path |-> "", spawned |-> 0,
     fetches |-> 0, servedBefore |-> FALSE]

\* a refreshCache goroutine: go refreshCache(site).  As history it records
\* the calls of the fetch collaborator it made (fetches), its place among
\* the refreshes of its site that hold a feed to install, in the order in
\* which their fetches answered (seq), and who, having fetched after it,
\* installed before it (overtakenBy)
Refresher(site, origin) ==
    [site |-> site, origin |-> origin, pc |-> "start", feed |-> NoFeed,
     fetches |-> 0, seq |-> 0, overtakenBy |-> ""]

\* the goroutines one sweep over the site list starts
Sweep(origin) ==
    SetToBag({Refresher(s, origin) : s \in DOMAIN getAllSiteConfig})

Running == BagToSet(refreshers)

Calls == BagToSet(requests)

\* the sites some request has answered with a feed
served == {q.site : q \in {c \in Calls : c.pc = "done" /\ c.resp.status = 200}}

\* Lock() has been called and not yet returned
WriterWaiting == \E r \in Running : r.pc = "lock"

\* RLock() returns at once: no writer holds the lock or waits for it
CanRLock == ~cacheLock.writer /\ ~WriterWaiting

\* a writer that takes no notice of who holds the lock
CanLockUnguarded == TRUE

\* Lock() returns at once: nobody holds the lock
CanLock == ~cacheLock.writer /\ cacheLock.readers = 0

(***************************************************************************)
(* initCache: the state once it has returned.  One refreshCache goroutine  *)
(* per site has been started and the ticker is armed.                      *)
(***************************************************************************)
initCache ==
    /\ cache = << >>
    /\ cacheLock = [readers |-> 0, writer |-> FALSE]
    /\ now = 0
    /\ nextTick = TickerInterval
    /\ refreshers = Sweep("init")

Init ==
    /\ initCache
    /\ requests = [c \in {IdleRequest} |-> NumRequests]
    /\ pipeIn = [site |-> "", fetched |-> FetchFailed]
    /\ pipeOut = [err |-> "idle", feed |-> NoFeed]

(***************************************************************************)
(* generateRSSHandler, one call q of the bag.                              *)
(***************************************************************************)
Step(bag, x, y) == (bag (-) SetToBag({x})) (+) SetToBag({y})

Respond(q, status, feed, path) ==
    [q EXCEPT !.pc = "done", !.resp = [status |-> status, feed |-> feed],
              !.path = path]

\* the request arrives with its site parameter; without one it is refused,
\* with one the handler calls cacheLock.RLock(), which returns at once or
\* blocks
Arrive(q) ==
    /\ q.pc = "idle"
    /\ \E site \in RequestSites :
          LET a == [q EXCEPT !.site = site,
                             !.servedBefore = site \in served]
          IN  IF site = ""
              THEN /\ requests' = Step(requests, q, Respond(a, 400, NoFeed, "missing"))
                   /\ UNCHANGED cacheLock
              ELSE IF CanRLock
              THEN /\ requests' = Step(requests, q, [a EXCEPT !.pc = "read"])
                   /\ cacheLock' = [cacheLock EXCEPT !.readers = @ + 1]
              ELSE /\ requests' = Step(requests, q, [a EXCEPT !.pc = "rlock"])
                   /\ UNCHANGED cacheLock
    /\ UNCHANGED <<cache, now, nextTick, refreshers, pipeIn, pipeOut>>

\* the blocked cacheLock.RLock() returns
HandlerRLock(q) ==
    /\ q.pc = "rlock"
    /\ CanRLock
    /\ cacheLock' = [cacheLock EXCEPT !.readers = @ + 1]
    /\ requests' = Step(requests, q, [q EXCEPT !.pc = "read"])
    /\ UNCHANGED <<cache, now, nextTick, refreshers, pipeIn, pipeOut>>

\* cached, ok := cache[site]
Lookup(c, site) ==
    IF site \in DOMAIN c
    THEN [cached |-> c[site], ok |-> TRUE]
    ELSE [cached |-> NoEntry, ok |-> FALSE]

\* a variant that leaves the RUnlock() to the handler's return
HandlerReadDefersUnlock(q) ==
    /\ q.pc = "read"
    /\ LET l == Lookup(cache, q.site)
       IN  requests' = Step(requests, q,
                            [q EXCEPT !.pc = "check", !.cached = l.cached,
                                      !.ok = l.ok])
    /\ UNCHANGED <<cache, cacheLock, now, nextTick, refreshers, pipeIn, pipeOut>>

\* cached, ok := cache[site]; cacheLock.RUnlock()
HandlerRead(q) ==
    /\ q.pc = "read"
    /\ LET l == Lookup(cache, q.site)
       IN  requests' = Step(requests, q,
                            [q EXCEPT !.pc = "check", !.cached = l.cached,
                                      !.ok = l.ok])
    /\ cacheLock' = [cacheLock EXCEPT !.readers = @ - 1]
    /\ UNCHANGED <<cache, now, nextTick, refreshers, pipeIn, pipeOut>>

\* ok && time.Now().Before(cached.ExpireAt)
IsFresh(q, t) == q.ok /\ t < q.cached.ExpireAt

\* a variant that revalidates on every hit
ServeFreshRevalidates(q) ==
    /\ q.pc = "check"
    /\ IsFresh(q, now)
    /\ refreshers' = refreshers (+) SetToBag({Refresher(q.site, "stale")})
    /\ requests' = Step(requests, q, Respond(q, 200, q.cached.Feed, "fresh"))
    /\ UNCHANGED <<cache, cacheLock, now, nextTick, pipeIn, pipeOut>>

\* a variant that answers with the entry the map holds now, read again
\* without the lock
ServeFreshReadsAgain(q) ==
    /\ q.pc = "check"
    /\ IsFresh(q, now)
    /\ requests' = Step(requests, q, Respond(q, 200, cache[q.site].Feed, "fresh"))
    /\ UNCHANGED <<cache, cacheLock, now, nextTick, refreshers, pipeIn, pipeOut>>

\* the entry is fresh: answer with it
ServeFresh(q) ==
    /\ q.pc = "check"
    /\ IsFresh(q, now)
    /\ requests' = Step(requests, q, Respond(q, 200, q.cached.Feed, "fresh"))
    /\ UNCHANGED <<cache, cacheLock, now, nextTick, refreshers, pipeIn, pipeOut>>

\* a variant that answers with the expired entry and starts no refresh
ServeStaleNoRefresh(q) ==
    /\ q.pc = "check"
    /\ ~IsFresh(q, now)
    /\ q.ok
    /\ requests' = Step(requests, q, Respond(q, 200, q.cached.Feed, "stale"))
    /\ UNCHANGED <<cache, cacheLock, now, nextTick, refreshers, pipeIn, pipeOut>>

\* a variant that refreshes in the handler before it answers
ServeStaleWaits(q) ==
    /\ q.pc = "check"
    /\ ~IsFresh(q, now)
    /\ q.ok
    /\ requests' = Step(requests, q, [q EXCEPT !.pc = "fetching", !.fetches = @ + 1])
    /\ UNCHANGED <<cache, cacheLock, now, nextTick, refreshers, pipeIn, pipeOut>>

\* the entry has expired: go refreshCache(site), and answer with it
ServeStale(q) ==
    /\ q.pc = "check"
    /\ ~IsFresh(q, now)
    /\ q.ok
    /\ refreshers' = refreshers (+) SetToBag({Refresher(q.site, "stale")})
    /\ requests' = Step(requests, q,
                        Respond([q EXCEPT !.spawned = @ + 1], 200,
                                q.cached.Feed, "stale"))
    /\ UNCHANGED <<cache, cacheLock, now, nextTick, pipeIn, pipeOut>>

\* no entry: fetchAndGenerateRSS(site) in the handler; a site without
\* configuration fails at once, otherwise the fetch is started
ColdMiss(q) ==
    /\ q.pc = "check"
    /\ ~q.ok
    /\ requests' = Step(requests, q,
                        IF getSiteConfig(q.site).exists
                        THEN [q EXCEPT !.pc = "fetching", !.fetches = @ + 1]
                        ELSE Respond([q EXCEPT !.err = fetchAndGenerateRSS(q.site, FetchFailed).err],
                                     500, NoFeed, "miss"))
    /\ UNCHANGED <<cache, cacheLock, now, nextTick, refreshers, pipeIn, pipeOut>>

\* a variant that remembers a failure as an empty entry
ColdMissReturnCachesFailure(q) ==
    /\ q.pc = "fetching"
    /\ \E fetched \in FetchOutcomes(q.site) :
          LET res == fetchAndGenerateRSS(q.site, fetched)
          IN  /\ requests' = Step(requests, q,
                                  IF res.err # "nil"
                                  THEN Respond([q EXCEPT !.err = res.err], 500, NoFeed, "miss")
                                  ELSE Respond(q, 200, res.feed, "miss"))
              /\ cache' = IF res.err # "nil"
                          THEN (q.site :> [Feed |-> NoFeed, ExpireAt |-> now + TTL]) @@ cache
                          ELSE cache
    /\ UNCHANGED <<cacheLock, now, nextTick, refreshers, pipeIn, pipeOut>>

\* the fetch answers: the feed is encoded, or the error is reported
ColdMissReturn(q) ==
    /\ q.pc = "fetching"
    /\ \E fetched \in FetchOutcomes(q.site) :
          LET res == fetchAndGenerateRSS(q.site, fetched)
          IN  requests' = Step(requests, q,
                               IF res.err # "nil"
                               THEN Respond([q EXCEPT !.err = res.err], 500, NoFeed, "miss")
                               ELSE Respond(q, 200, res.feed, "miss"))
    /\ UNCHANGED <<cache, cacheLock, now, nextTick, refreshers, pipeIn, pipeOut>>

generateRSSHandler(q) ==
    \/ Arrive(q)
    \/ HandlerRLock(q)
    \/ HandlerRead(q)
    \/ ServeFresh(q)
    \/ ServeStale(q)
    \/ ColdMiss(q)
    \/ ColdMissReturn(q)

(***************************************************************************)
(* refreshCache, one goroutine r of the bag.                               *)
(***************************************************************************)
\* history: the place of a fetch that answers now, after the refreshes of
\* the site that already hold a feed
NextSeq(site) ==
    LET held == {x.seq : x \in {y \in Running : y.site = site
                                                  /\ y.pc \in {"lock", "install"}}}
    IN  IF held = {} THEN 1
        ELSE 1 + (CHOOSE m \in held : \A n \in held : n <= m)

\* history: r has installed; the refreshes of its site still waiting with a
\* feed fetched before r's learn that r went first, those with a feed
\* fetched after r's move up one place
Overtake(r, x) ==
    IF x.site = r.site /\ x.pc = "lock"
    THEN IF x.seq < r.seq
         THEN [x EXCEPT !.overtakenBy = r.origin]
         ELSE [x EXCEPT !.seq = @ - 1]
    ELSE x

\* a variant whose pipeline run begins by dropping the site's entry
RefreshStartInvalidates(r) ==
    /\ r.pc = "start"
    /\ refreshers' =
          IF getSiteConfig(r.site).exists
          THEN Step(refreshers, r, [r EXCEPT !.pc = "fetching", !.fetches = @ + 1])
          ELSE refreshers (-) SetToBag({r})
    /\ cache' = [s \in DOMAIN cache \ {r.site} |-> cache[s]]
    /\ UNCHANGED <<cacheLock, now, nextTick, requests, pipeIn, pipeOut>>

\* fetchAndGenerateRSS(site) is called: a site without configuration fails
\* at once (logged, return), otherwise the fetch is started
RefreshStart(r) ==
    /\ r.pc = "start"
    /\ refreshers' =
          IF getSiteConfig(r.site).exists
          THEN Step(refreshers, r, [r EXCEPT !.pc = "fetching", !.fetches = @ + 1])
          ELSE refreshers (-) SetToBag({r})
    /\ UNCHANGED <<cache, cacheLock, now, nextTick, requests, pipeIn, pipeOut>>

\* a variant that drops the site's entry when the refresh fails
RefreshFetchReturnEvicts(r) ==
    /\ r.pc = "fetching"
    /\ \E fetched \in FetchOutcomes(r.site) :
          LET res == fetchAndGenerateRSS(r.site, fetched)
          IN  IF res.err # "nil"
              THEN /\ refreshers' = refreshers (-) SetToBag({r})
                   /\ cache' = [s \in DOMAIN cache \ {r.site} |-> cache[s]]
                   /\ UNCHANGED cacheLock
              ELSE IF CanLock
              THEN /\ refreshers' = Step(refreshers, r,
                                         [r EXCEPT !.pc = "install", !.feed = res.feed,
                                                   !.seq = NextSeq(r.site)])
                   /\ cacheLock' = [cacheLock EXCEPT !.writer = TRUE]
                   /\ UNCHANGED cache
              ELSE /\ refreshers' = Step(refreshers, r,
                                         [r EXCEPT !.pc = "lock", !.feed = res.feed,
                                                   !.seq = NextSeq(r.site)])
                   /\ UNCHANGED <<cache, cacheLock>>
    /\ UNCHANGED <<now, nextTick, requests, pipeIn, pipeOut>>

\* a variant that tries again at once when the fetch fails
RefreshFetchReturnRetries(r) ==
    /\ r.pc = "fetching"
    /\ \E fetched \in FetchOutcomes(r.site) :
          LET res == fetchAndGenerateRSS(r.site, fetched)
          IN  IF res.err # "nil"
              THEN /\ refreshers' = Step(refreshers, r, [r EXCEPT !.pc = "start"])
                   /\ UNCHANGED cacheLock
              ELSE IF CanLock
              THEN /\ refreshers' = Step(refreshers, r,
                                         [r EXCEPT !.pc = "install", !.feed = res.feed,
                                                   !.seq = NextSeq(r.site)])
                   /\ cacheLock' = [cacheLock EXCEPT !.writer = TRUE]
              ELSE /\ refreshers' = Step(refreshers, r,
                                         [r EXCEPT !.pc = "lock", !.feed = res.feed,
                                                   !.seq = NextSeq(r.site)])
                   /\ UNCHANGED cacheLock
    /\ UNCHANGED <<cache, now, nextTick, requests, pipeIn, pipeOut>>

\* the fetch answers: on an error the goroutine logs it and returns; with a
\* feed it calls cacheLock.Lock(), which returns at once or blocks
RefreshFetchReturn(r) ==
    /\ r.pc = "fetching"
    /\ \E fetched \in FetchOutcomes(r.site) :
          LET res == fetchAndGenerateRSS(r.site, fetched)
          IN  IF res.err # "nil"
              THEN /\ refreshers' = refreshers (-) SetToBag({r})
                   /\ UNCHANGED cacheLock
              ELSE IF CanLock
              THEN /\ refreshers' = Step(refreshers, r,
                                         [r EXCEPT !.pc = "install", !.feed = res.feed,
                                                   !.seq = NextSeq(r.site)])
                   /\ cacheLock' = [cacheLock EXCEPT !.writer = TRUE]
              ELSE /\ refreshers' = Step(refreshers, r,
                                         [r EXCEPT !.pc = "lock", !.feed = res.feed,
                                                   !.seq = NextSeq(r.site)])
                   /\ UNCHANGED cacheLock
    /\ UNCHANGED <<cache, now, nextTick, requests, pipeIn, pipeOut>>

\* the blocked cacheLock.Lock() returns
RefreshLock(r) ==
    /\ r.pc = "lock"
    /\ CanLock
    /\ cacheLock' = [cacheLock EXCEPT !.writer = TRUE]
    /\ refreshers' = Step(refreshers, r, [r EXCEPT !.pc = "install"])
    /\ UNCHANGED <<cache, now, nextTick, requests, pipeIn, pipeOut>>

\* a variant that keeps an entry that has not expired
InstallEntryUnlessFresh(c, site, feed, t) ==
    IF site \in DOMAIN c /\ t < c[site].ExpireAt
    THEN c
    ELSE (site :> [Feed |-> feed, ExpireAt |-> t + TTL]) @@ c

\* cache[site] = FeedCache{Feed: feed, ExpireAt: time.Now().Add(10 * time.Minute)}
InstallEntry(c, site, feed, t) ==
    (site :> [Feed |-> feed, ExpireAt |-> t + TTL]) @@ c

\* the entry is written and cacheLock.Unlock() called; the goroutine ends
RefreshInstall(r) ==
    /\ r.pc = "install"
    /\ cache' = InstallEntry(cache, r.site, r.feed, now)
    /\ cacheLock' = [cacheLock EXCEPT !.writer = FALSE]
    /\ refreshers' = BagOfAll(LAMBDA x : Overtake(r, x),
                              refreshers (-) SetToBag({r}))
    /\ UNCHANGED <<now, nextTick, requests, pipeIn, pipeOut>>

refreshCache(r) ==
    \/ RefreshStart(r)
    \/ RefreshFetchReturn(r)
    \/ RefreshLock(r)
    \/ RefreshInstall(r)

(***************************************************************************)
(* The ticker goroutine of initCache and the clock.                        *)
(***************************************************************************)
\* a variant that sweeps again only when no refresh is running
TickerSweepAfterLast ==
    /\ now >= nextTick
    /\ refreshers = EmptyBag
    /\ nextTick' = nextTick + TickerInterval
    /\ refreshers' = refreshers (+) Sweep("tick")
    /\ UNCHANGED <<cache, cacheLock, now, requests, pipeIn, pipeOut>>

\* for range ticker.C { for _, site := range sites { go refreshCache(site) } }
TickerSweep ==
    /\ now >= nextTick
    /\ nextTick' = nextTick + TickerInterval
    /\ refreshers' = refreshers (+) Sweep("tick")
    /\ UNCHANGED <<cache, cacheLock, now, requests, pipeIn, pipeOut>>

\* a variant whose clock can also be set back to where it started
ClockAdvanceOrSetBack ==
    /\ \/ now + ClockStep <= MaxTime /\ now' = now + ClockStep
       \/ now > 0 /\ now' = 0
    /\ UNCHANGED <<cache, cacheLock, nextTick, requests, refreshers, pipeIn,
                   pipeOut>>

\* time passes
ClockAdvance ==
    /\ now + ClockStep <= MaxTime
    /\ now' = now + ClockStep
    /\ UNCHANGED <<cache, cacheLock, nextTick, requests, refreshers, pipeIn,
                   pipeOut>>

Next ==
    \/ \E q \in Calls : generateRSSHandler(q)
    \/ \E r \in Running : refreshCache(r)
    \/ TickerSweep
    \/ ClockAdvance

Spec == Init /\ [][Next]_vars

(***************************************************************************)
(* The pipeline alone: fetchAndGenerateRSS run once on any site and any    *)
(* answer of the fetch collaborator.                                       *)
(***************************************************************************)
PipeInputs ==
    [site : DOMAIN getAllSiteConfig,
     fetched : {FetchFailed} \cup {Fetched(d) : d \in AllDocs}]
        \cup {[site |-> "nosuch", fetched |-> FetchFailed]}

InitPipe ==
    /\ initCache
    /\ requests = [c \in {IdleRequest} |-> NumRequests]
    /\ pipeIn \in PipeInputs
    /\ pipeOut = [err |-> "idle", feed |-> NoFeed]

RunPipeline ==
    /\ pipeOut.err = "idle"
    /\ pipeOut' = fetchAndGenerateRSS(pipeIn.site, pipeIn.fetched)
    /\ UNCHANGED <<cache, cacheLock, now, nextTick, requests, refreshers, pipeIn>>

NextPipe == RunPipeline

SpecPipe == InitPipe /\ [][NextPipe]_vars

(***************************************************************************)
(* The warm system under the Go scheduler.  WarmStart is the state in      *)
(* which the startup sweep has ended at time 0: the entry of each site is  *)
(* installed or its refresh has failed.  A runnable goroutine is           *)
(* eventually run and a goroutine blocked on the                           *)
(* lock eventually gets it; nothing makes a fetch answer, a request        *)
(* arrive, or the ticker goroutine be served.                              *)
(***************************************************************************)
\* what one refresh of the startup sweep left in the cache c
AfterRefresh(c, site) ==
    {c} \cup {InstallEntry(c, site, f, 0) : f \in ProducibleFeeds(site)}

WarmCaches ==
    UNION {AfterRefresh(c, "example") : c \in AfterRefresh(<< >>, "abc")}

WarmStart ==
    /\ cache \in WarmCaches
    /\ cacheLock = [readers |-> 0, writer |-> FALSE]
    /\ now = 0
    /\ nextTick = TickerInterval
    /\ refreshers = EmptyBag
    /\ requests = [c \in {IdleRequest} |-> NumRequests]
    /\ pipeIn = [site |-> "", fetched |-> FetchFailed]
    /\ pipeOut = [err |-> "idle", feed |-> NoFeed]

Scheduling ==
    /\ SF_vars(\E q \in Calls : HandlerRLock(q))
    /\ WF_vars(\E q \in Calls : HandlerRead(q))
    /\ WF_vars(\E q \in Calls : ServeFresh(q))
    /\ WF_vars(\E q \in Calls : ServeStale(q))
    /\ WF_vars(\E q \in Calls : ColdMiss(q))
    /\ WF_vars(\E r \in Running : RefreshStart(r))
    /\ SF_vars(\E r \in Running : RefreshLock(r))
    /\ WF_vars(\E r \in Running : RefreshInstall(r))

LiveSpec == WarmStart /\ [][Next]_vars /\ Scheduling

\* the same scheduler from the start of the program, with one request less
\* to come
ColdStart ==
    /\ initCache
    /\ requests = [c \in {IdleRequest} |-> NumRequests - 1]
    /\ pipeIn = [site |-> "", fetched |-> FetchFailed]
    /\ pipeOut = [err |-> "idle", feed |-> NoFeed]

ColdLiveSpec == ColdStart /\ [][Next]_vars /\ Scheduling

(***************************************************************************)
(* Vocabulary of the claims.                                               *)
(***************************************************************************)
\* the call q takes the step: one copy of its record leaves the bag
Acts(q) == CopiesIn(q, requests') < CopiesIn(q, requests)

\* the call q takes the step and becomes p
Becomes(q, p) == requests' = Step(requests, q, p)

(***************************************************************************)
(* C1.  Availability after first success: once a read of a site has        *)
(* answered with a feed, every later read of that site answers with a feed *)
(* and never with an error.  Stated for the calls that arrive after the    *)
(* site has been served (servedBefore).                                    *)
(***************************************************************************)
C1_AvailableAfterFirstSuccess ==
    \A q \in Calls :
        (q.pc = "done" /\ q.servedBefore) => q.resp.status = 200

(***************************************************************************)
(* C2.  Cold miss success installs: in the step in which a call without    *)
(* entry gets its feed from the pipeline, the cache receives an entry for  *)
(* the site holding that feed, expiring at now + TTL.                      *)
(***************************************************************************)
C2_ColdMissInstalls ==
    [][\A q \in Calls : \A feed \in ProducibleFeeds(q.site) :
          (q.pc = "fetching" /\ Becomes(q, Respond(q, 200, feed, "miss")))
              => /\ q.site \in DOMAIN cache'
                 /\ cache'[q.site] = [Feed |-> feed, ExpireAt |-> now + TTL]]_vars

(***************************************************************************)
(* C3.  Cold miss failure creates nothing: a call that found no entry and  *)
(* whose pipeline run fails (unknown site, or failed fetch) answers with   *)
(* an error, and the step in which it does leaves the cache as it was, so  *)
(* that no entry for the site is created.                                  *)
(***************************************************************************)
C3_ColdMissFailureCreatesNothing ==
    [][\A q \in Calls : \A p \in BagToSet(requests') :
          (/\ q.pc \in {"check", "fetching"}
           /\ ~q.ok
           /\ Acts(q)
           /\ Becomes(q, p)
           /\ p.pc = "done")
              => /\ p.err # "nil" <=> p.resp.status = 500
                 /\ p.err # "nil" =>
                       /\ p.resp.feed = NoFeed
                       /\ cache' = cache
                       /\ p.site \notin DOMAIN cache => p.site \notin DOMAIN cache']_vars

\* a call for a configured site failed on a cold miss and no entry exists
C3_Witness ==
    \E q \in Calls :
        /\ q.pc = "done"
        /\ q.path = "miss"
        /\ q.site \in DOMAIN getAllSiteConfig
        /\ q.err = "fetch failed"
        /\ q.resp.status = 500
        /\ q.site \notin DOMAIN cache

(***************************************************************************)
(* C4.  Fresh hit does no I/O: a call whose entry expires strictly after   *)
(* the present answers with exactly that entry's feed; the step starts no  *)
(* refresh goroutine and no fetch, and leaves the cache unchanged.         *)
(***************************************************************************)
C4_FreshHitNoIO ==
    [][\A q \in Calls :
          (Acts(q) /\ q.pc = "check" /\ q.ok /\ q.cached.ExpireAt > now)
              => /\ Becomes(q, [q EXCEPT !.pc = "done", !.path = "fresh",
                                         !.resp = [status |-> 200,
                                                   feed |-> q.cached.Feed]])
                 /\ q.fetches = 0
                 /\ q.spawned = 0
                 /\ refreshers' = refreshers
                 /\ cache' = cache]_vars

\* a call has answered from a fresh entry
C4_Witness ==
    \E q \in Calls :
        /\ q.pc = "done"
        /\ q.path = "fresh"
        /\ q.resp = [status |-> 200, feed |-> q.cached.Feed]
        /\ q.cached.Feed \in ProducibleFeeds(q.site)
        /\ q.cached.ExpireAt > now

(***************************************************************************)
(* C5.  Stale hit serves and revalidates: a call whose entry has expired   *)
(* answers with that entry's feed unchanged, having made no fetch itself,  *)
(* and starts exactly one refreshCache goroutine for the site; a started   *)
(* goroutine calls the fetch collaborator once and only once, and every    *)
(* goroutine so started eventually makes that call.                        *)
(***************************************************************************)
StaleUnstarted == \E r \in Running : r.origin = "stale" /\ r.pc = "start"

C5_StaleHitServesAndRevalidates ==
    /\ [][\A q \in Calls :
             (Acts(q) /\ q.pc = "check" /\ q.ok /\ q.cached.ExpireAt <= now)
                 => /\ Becomes(q, [q EXCEPT !.pc = "done", !.path = "stale",
                                            !.spawned = 1,
                                            !.resp = [status |-> 200,
                                                      feed |-> q.cached.Feed]])
                    /\ q.fetches = 0
                    /\ q.spawned = 0
                    /\ refreshers' = refreshers (+) SetToBag({Refresher(q.site, "stale")})
                    /\ cache' = cache]_vars
    /\ [][\A r \in Running :
             (r.origin = "stale" /\ r.pc = "start"
                  /\ CopiesIn(r, refreshers') < CopiesIn(r, refreshers))
                 => refreshers' = Step(refreshers, r,
                                       [r EXCEPT !.pc = "fetching", !.fetches = 1])]_vars
    /\ [](\A r \in Running : r.fetches = IF r.pc = "start" THEN 0 ELSE 1)
    /\ (StaleUnstarted ~> ~StaleUnstarted)

\* a call has answered with an expired entry and its refresh is fetching
C5_Witness ==
    \E q \in Calls :
        /\ q.pc = "done"
        /\ q.path = "stale"
        /\ q.cached.ExpireAt <= now
        /\ q.resp = [status |-> 200, feed |-> q.cached.Feed]
        /\ q.spawned = 1
        /\ \E r \in Running :
              /\ r.origin = "stale"
              /\ r.site = q.site
              /\ r.pc = "fetching"
              /\ r.fetches = 1

(***************************************************************************)
(* C6.  Failed refresh preserves state: the step in which a refresh fails  *)
(* changes neither the cache nor any call nor the ticker, the goroutine    *)
(* just ends; no step removes an entry; and an entry is created or         *)
(* replaced only by a refresh installing the feed its pipeline run         *)
(* produced, with expiry now + TTL.                                        *)
(***************************************************************************)
C6_FailedRefreshPreservesState ==
    [][/\ \A r \in Running :
             (r.pc = "fetching" /\ refreshers' = refreshers (-) SetToBag({r}))
                 => UNCHANGED <<cache, cacheLock, requests, nextTick>>
       /\ \A s \in DOMAIN cache : s \in DOMAIN cache'
       /\ \A s \in DOMAIN cache' :
             (IF s \in DOMAIN cache THEN cache'[s] # cache[s] ELSE TRUE)
                 => \E r \in Running :
                       /\ r.pc = "install"
                       /\ r.site = s
                       /\ r.feed \in ProducibleFeeds(s)
                       /\ cache'[s] = [Feed |-> r.feed, ExpireAt |-> now + TTL]]_vars

\* the ticker's refresh of "example" has failed and the expired entry stays
C6_Witness ==
    /\ "example" \in DOMAIN cache
    /\ cache["example"].ExpireAt = TTL
    /\ now = TickerInterval
    /\ nextTick > now
    /\ \A r \in Running : r.site # "example"
    /\ \A q \in Calls : q.path # "stale"

(***************************************************************************)
(* C7.  Concurrent stale readers: every call that finds the entry expired  *)
(* answers with the stale feed and starts one refresh, so that the         *)
(* refreshes triggered are never more than such calls; the lock is held by *)
(* readers or by one writer, never both, and whoever waits for it can be   *)
(* let in by a step of a holder or of its own; and every write of the      *)
(* cache puts one refresh's result, whole, in the site's entry and leaves  *)
(* the other entries alone.                                                *)
(***************************************************************************)
Count(bag, P(_)) == BagCardinality([x \in {y \in DOMAIN bag : P(y)} |-> bag[x]])

IsStaleCall(q) == q.pc = "done" /\ q.path = "stale"

IsTriggered(r) == r.origin = "stale"

IsReading(q) == q.pc = "read"

IsInstalling(r) == r.pc = "install"

LockWaited == (\E q \in Calls : q.pc = "rlock") \/ (\E r \in Running : r.pc = "lock")

LockStep ==
    \/ \E q \in Calls : HandlerRLock(q) \/ HandlerRead(q)
    \/ \E r \in Running : RefreshLock(r) \/ RefreshInstall(r)

C7_ConcurrentStaleReaders ==
    /\ [](\A q \in Calls :
             IsStaleCall(q) => /\ q.resp = [status |-> 200, feed |-> q.cached.Feed]
                               /\ q.spawned = 1)
    /\ [](Count(refreshers, IsTriggered) <= Count(requests, IsStaleCall))
    /\ [](/\ cacheLock.readers = Count(requests, IsReading)
          /\ Count(refreshers, IsInstalling) = (IF cacheLock.writer THEN 1 ELSE 0)
          /\ ~(cacheLock.writer /\ cacheLock.readers > 0)
          /\ LockWaited => ENABLED LockStep)
    /\ [][cache' # cache =>
             \E r \in Running :
                /\ r.pc = "install"
                /\ r.feed \in ProducibleFeeds(r.site)
                /\ r.site \in DOMAIN cache'
                /\ cache'[r.site] = [Feed |-> r.feed, ExpireAt |-> now + TTL]
                /\ DOMAIN cache' = DOMAIN cache \cup {r.site}
                /\ \A s \in DOMAIN cache \ {r.site} : cache'[s] = cache[s]]_vars

\* two calls have answered with the entry installed at start-up, and the
\* entry now in place was installed by a refresh they triggered
C7_Witness ==
    /\ Count(requests, IsStaleCall) = 2
    /\ \A q \in Calls : q.site = "example" /\ q.cached.ExpireAt = TTL
    /\ nextTick = TickerInterval
    /\ now = TTL
    /\ \A r \in Running : r.site # "example"
    /\ "example" \in DOMAIN cache
    /\ cache["example"].ExpireAt = now + TTL

(***************************************************************************)
(* C8.  Readers are never blocked by upstream latency once data exists: a  *)
(* call fetches in the handler only if its lookup found no entry, the      *)
(* lookup finds the entry whenever the cache holds one, and, while fetches *)
(* may hang for ever, every call for a site with an entry completes.       *)
(***************************************************************************)
HasEntry(q) ==
    \/ q.pc \in {"rlock", "read"} /\ q.site \in DOMAIN cache
    \/ q.pc = "check" /\ q.ok

ReaderPending == \E q \in Calls : HasEntry(q)

C8_ReadersNotBlockedByUpstream ==
    /\ [](\A q \in Calls : (q.pc = "fetching" \/ q.fetches > 0) => ~q.ok)
    /\ [][\A q \in Calls :
             (Acts(q) /\ q.pc = "read" /\ q.site \in DOMAIN cache)
                 => Becomes(q, [q EXCEPT !.pc = "check", !.ok = TRUE,
                                         !.cached = cache[q.site]])]_vars
    /\ (ReaderPending ~> ~ReaderPending)

\* a call has answered from the cache while the fetch of a refresh and the
\* handler fetch of another call are outstanding
C8_Witness ==
    /\ \E q \in Calls :
          /\ q.pc = "done"
          /\ q.ok
          /\ q.fetches = 0
          /\ q.resp.status = 200
    /\ \E r \in Running : r.pc = "fetching"
    /\ \E q \in Calls : q.pc = "fetching"

(***************************************************************************)
(* Vocabulary of the extraction claims.                                    *)
(***************************************************************************)
\* the pipeline has run on a document of a configured site
Extracted ==
    /\ pipeOut.err # "idle"
    /\ pipeIn.site \in DOMAIN getAllSiteConfig
    /\ ~pipeIn.fetched.err

InDoc == pipeIn.fetched.doc

OutItems == pipeOut.feed.Channel.Items

\* date sub-elements whose text is empty or is no date of the layout
\* 2006-01-02: no element, a 29 February of a common year, another notation
UnparseableDates == {Absent, Sub("2023-02-29"), Sub("02/29")}

(***************************************************************************)
(* C9.  Missing link drops the entry: the extractor emits no entry for a   *)
(* container whose link sub-element is absent, so that the entries are at  *)
(* most as many as the containers with a link, a document of one complete  *)
(* container and one with a title and no link gives exactly 1 entry, and   *)
(* no entry has an empty title or an empty link.                           *)
(***************************************************************************)
C9_MissingLinkDropsEntry ==
    (Extracted /\ pipeOut.err = "nil")
        => /\ Len(OutItems) <= Cardinality({i \in DOMAIN InDoc : InDoc[i].href.present})
           /\ (/\ Len(InDoc) = 2
               /\ InDoc[1].title.present /\ InDoc[1].href.present
               /\ InDoc[2].title.present /\ ~InDoc[2].href.present)
                  => Len(OutItems) = 1
           /\ \A k \in DOMAIN OutItems :
                 OutItems[k].Title # "" /\ OutItems[k].Link # ""

(***************************************************************************)
(* C10.  Extraction robustness: the entries emitted are those of an        *)
(* increasing choice of containers, that is in document order, which       *)
(* takes every container with a title and a link and none without a        *)
(* title; each entry carries its container's title and description, a      *)
(* link, and a GUID equal to the link, and no publication date when the    *)
(* container's date text is empty or unparseable; and the pipeline does    *)
(* not fail on any document.                                               *)
(***************************************************************************)
C10_ExtractionRobustness ==
    Extracted
        => /\ pipeOut.err = "nil"
           /\ \E f \in [1..Len(OutItems) -> 1..Len(InDoc)] :
                 /\ \A j, k \in 1..Len(OutItems) : j < k => f[j] < f[k]
                 /\ \A i \in 1..Len(InDoc) :
                       (InDoc[i].title.present /\ InDoc[i].href.present)
                           => \E k \in 1..Len(OutItems) : f[k] = i
                 /\ \A k \in 1..Len(OutItems) :
                       LET c == InDoc[f[k]]
                           e == OutItems[k]
                       IN  /\ c.title.present
                           /\ e.Title = c.title.text
                           /\ e.Description = (IF c.desc.present THEN c.desc.text ELSE "")
                           /\ e.Link # ""
                           /\ e.GUID = e.Link
                           /\ c.date \in UnparseableDates => e.PubDate = ""

\* of a container without title and one with title, link and a date in
\* another notation, the second alone is emitted, without publication date
C10_Witness ==
    /\ Extracted
    /\ InDoc = <<Container(Absent, Sub("/posts/1"), Sub("d"), Sub("2024-02-29")),
                 Container(Sub("A"), Sub("http://x.org/p"), Sub("d"), Sub("02/29"))>>
    /\ Len(OutItems) = 1
    /\ OutItems[1].Title = "A"
    /\ OutItems[1].Link = "http://x.org/p"
    /\ OutItems[1].Description = "d"
    /\ OutItems[1].GUID = "http://x.org/p"
    /\ OutItems[1].PubDate = ""

(***************************************************************************)
(* C11.  Link normalization: a link that begins with "http" is emitted as  *)
(* it is; any other link is emitted as the site's base URL immediately     *)
(* followed by the raw link, nothing added and nothing removed between     *)
(* them (base https://abc.com/ and link /posts/1 give                      *)
(* https://abc.com//posts/1); the GUID of an entry is its emitted link.    *)
(* The entries are those of an increasing choice of containers that takes  *)
(* every container with a title and a link.                                *)
(***************************************************************************)
C11_LinkNormalization ==
    /\ EachItem([Name |-> "abc", URL |-> "https://abc.com/",
                 DateFormat |-> "2006-01-02"],
                Container(Sub("A"), Sub("/posts/1"), Absent, Absent))
           = [emit |-> TRUE,
              item |-> [Title |-> "A", Link |-> "https://abc.com//posts/1",
                        Description |-> "", PubDate |-> "",
                        GUID |-> "https://abc.com//posts/1"]]
    /\ Extracted
          => \E f \in [1..Len(OutItems) -> 1..Len(InDoc)] :
                /\ \A j, k \in 1..Len(OutItems) : j < k => f[j] < f[k]
                /\ \A i \in 1..Len(InDoc) :
                      (InDoc[i].title.present /\ InDoc[i].href.present)
                          => \E k \in 1..Len(OutItems) : f[k] = i
                /\ \A k \in 1..Len(OutItems) :
                      LET raw == InDoc[f[k]].href.text
                          e == OutItems[k]
                      IN  /\ InDoc[f[k]].href.present
                             => e.Link = (IF Len(raw) >= 4 /\ SubSeq(raw, 1, 4) = "http"
                                          THEN raw
                                          ELSE getAllSiteConfig[pipeIn.site].URL \o raw)
                          /\ e.GUID = e.Link

\* site abc, whose base URL ends with '/': a link with a leading '/' gets
\* both, a link without one is appended as it is, an absolute one is kept
C11_Witness ==
    /\ Extracted
    /\ pipeIn.site = "abc"
    /\ InDoc = <<Container(Sub("A"), Sub("/posts/1"), Absent, Absent),
                 Container(Sub("A"), Sub("http://x.org/p"), Absent, Absent)>>
    /\ Len(OutItems) = 2
    /\ OutItems[1].Link = "https://www.abc.com//posts/1"
    /\ OutItems[1].GUID = "https://www.abc.com//posts/1"
    /\ OutItems[2].Link = "http://x.org/p"
    /\ OutItems[2].GUID = "http://x.org/p"

(***************************************************************************)
(* C12.  Scheduler sweep: the program starts with one refresh goroutine    *)
(* per site of the registry; every tick of the timer, whose interval is    *)
(* the TTL, starts one more per site; a due tick can always be served,     *)
(* whatever the refreshes running; and a refresh that is not waiting for   *)
(* its upstream always ends, a refresh that has got its feed installing    *)
(* it, while the refreshes of other sites hang in their fetch or fail.     *)
(***************************************************************************)
\* a refresh of site s holds the feed it fetched and has yet to install it
Holding(s, feed) ==
    \E r \in Running : r.site = s /\ r.feed = feed /\ r.pc \in {"lock", "install"}

C12_SchedulerSweep ==
    /\ refreshers = Sweep("init")
    /\ \A s \in DOMAIN getAllSiteConfig : CopiesIn(Refresher(s, "init"), Sweep("init")) = 1
    /\ TickerInterval = TTL
    /\ [][nextTick' # nextTick
            => /\ nextTick' = nextTick + TTL
               /\ \A s \in DOMAIN getAllSiteConfig :
                     CopiesIn(Refresher(s, "tick"), refreshers')
                         = CopiesIn(Refresher(s, "tick"), refreshers) + 1]_vars
    /\ [](now >= nextTick => ENABLED TickerSweep)
    /\ \A s \in DOMAIN getAllSiteConfig : \A feed \in ProducibleFeeds(s) :
          Holding(s, feed) ~> (s \in DOMAIN cache /\ cache[s].Feed = feed)
    /\ (\E r \in Running : r.pc # "fetching")
          ~> (\A r \in Running : r.pc = "fetching")

\* the refresh of example started at startup still hangs in its fetch; the
\* entry of abc is installed and the tick has started the next sweep
C12_Witness ==
    /\ \E r \in Running : r.site = "example" /\ r.origin = "init" /\ r.pc = "fetching"
    /\ "abc" \in DOMAIN cache
    /\ "example" \notin DOMAIN cache
    /\ nextTick = 2 * TickerInterval
    /\ \E r \in Running : r.site = "abc" /\ r.origin = "tick"

(***************************************************************************)
(* C13.  Lock never spans a fetch: the holders of the lock are exactly the *)
(* calls at their map lookup and the refresh at its map install, so that   *)
(* whoever is inside the pipeline holds it in neither mode and the lock is *)
(* free when nobody is at a lookup or an install; the holder's next step   *)
(* is the lookup or the install and gives the lock back; and the steps of  *)
(* a call around its pipeline run leave the lock alone.                    *)
(***************************************************************************)
\* the refresh r takes the step
ActsR(r) == CopiesIn(r, refreshers') < CopiesIn(r, refreshers)

InPipeline(x) == x.pc = "fetching"

C13_LockNeverSpansFetch ==
    /\ [](cacheLock.readers + (IF cacheLock.writer THEN 1 ELSE 0)
             = Count(requests, IsReading) + Count(refreshers, IsInstalling))
    /\ [](\A q \in Calls : InPipeline(q) => ~IsReading(q))
    /\ [](\A r \in Running : InPipeline(r) => ~IsInstalling(r))
    /\ []((/\ \A q \in Calls : ~IsReading(q)
           /\ \A r \in Running : ~IsInstalling(r))
             => cacheLock = [readers |-> 0, writer |-> FALSE])
    /\ [][\A q \in Calls :
             (Acts(q) /\ IsReading(q))
                 => /\ cacheLock'.readers = cacheLock.readers - 1
                    /\ \E l \in {Lookup(cache, q.site)} :
                          Becomes(q, [q EXCEPT !.pc = "check", !.ok = l.ok,
                                               !.cached = l.cached])]_vars
    /\ [][\A r \in Running :
             (ActsR(r) /\ IsInstalling(r))
                 => /\ ~cacheLock'.writer
                    /\ BagCardinality(refreshers') = BagCardinality(refreshers) - 1]_vars
    /\ [][\A q \in Calls :
             (Acts(q) /\ q.pc \in {"check", "fetching"})
                 => cacheLock' = cacheLock]_vars
    /\ [][\A r \in Running :
             (ActsR(r) /\ r.pc = "start") => cacheLock' = cacheLock]_vars

\* a call and a refresh are inside the pipeline while another refresh holds
\* the lock for its install
C13_Witness ==
    /\ \E q \in Calls : InPipeline(q)
    /\ \E r \in Running : InPipeline(r)
    /\ cacheLock.writer
    /\ \E r \in Running : IsInstalling(r)

(***************************************************************************)
(* C14.  Last-writer-wins install: the install step of a refresh puts its  *)
(* feed, expiring at now + TTL, in the site's entry whatever entry was     *)
(* there, fresh or expired, and leaves the other sites alone; nothing else *)
(* writes the cache; so the entry is the feed of the refresh that          *)
(* installed last, also when a refresh that fetched after it installed     *)
(* before it.                                                              *)
(***************************************************************************)
C14_LastWriterWins ==
    /\ [][\A r \in Running :
             (ActsR(r) /\ IsInstalling(r))
                 => /\ DOMAIN cache' = DOMAIN cache \cup {r.site}
                    /\ cache'[r.site] = [Feed |-> r.feed, ExpireAt |-> now + TTL]
                    /\ \A s \in DOMAIN cache \ {r.site} : cache'[s] = cache[s]]_vars
    /\ [][cache' # cache => \E r \in Running : ActsR(r) /\ IsInstalling(r)]_vars

\* a refresh of the ticker's sweep and a refresh triggered by a stale read
\* overlap: the first fetched first, the second installed first, and the
\* first now holds the lock to write its other feed over the fresh entry
C14_Witness ==
    \E r \in Running :
       /\ IsInstalling(r)
       /\ r.origin = "tick"
       /\ r.overtakenBy = "stale"
       /\ r.site \in DOMAIN cache
       /\ now < cache[r.site].ExpireAt
       /\ cache[r.site].Feed # r.feed

(***************************************************************************)
(* C15.  Retry by next cycle: a refresh fetches once, and when its fetch   *)
(* fails it ends, starting nothing and leaving the cache as it was; what   *)
(* tries again is the next sweep, which is enabled whenever a tick is due  *)
(* and starts a refresh of every site, or the next read that finds the     *)
(* entry expired, which starts a refresh of its site; and a refresh whose  *)
(* fetch has succeeded leads to an entry of its site that expires in the   *)
(* future.                                                                 *)
(***************************************************************************)
Fresh(s) == s \in DOMAIN cache /\ now < cache[s].ExpireAt

Recovered(s) == \E r \in Running : r.site = s /\ r.pc \in {"lock", "install"}

C15_RetryByNextCycle ==
    /\ [](\A r \in Running : r.fetches <= 1)
    /\ [][\A r \in Running :
             (ActsR(r) /\ InPipeline(r)
                       /\ BagCardinality(refreshers') < BagCardinality(refreshers))
                 => /\ refreshers' = refreshers (-) SetToBag({r})
                    /\ UNCHANGED <<cache, cacheLock, requests, nextTick>>]_vars
    /\ [](now >= nextTick => ENABLED TickerSweep)
    /\ [][nextTick' # nextTick
            => refreshers' = refreshers (+) Sweep("tick")]_vars
    /\ [][\A q \in Calls :
             (Acts(q) /\ q.pc = "check" /\ q.ok /\ ~(now < q.cached.ExpireAt))
                 => refreshers' = refreshers (+) SetToBag({Refresher(q.site, "stale")})]_vars
    /\ \A s \in DOMAIN getAllSiteConfig : Recovered(s) ~> Fresh(s)

\* the refresh of example at startup failed, leaving no entry; the refresh
\* started by the tick has fetched and holds the lock to install
C15_Witness ==
    /\ "example" \notin DOMAIN cache
    /\ \A r \in Running : r.site = "example" => r.origin = "tick"
    /\ \E r \in Running : r.site = "example" /\ IsInstalling(r)
    /\ now = TickerInterval
    /\ nextTick = 2 * TickerInterval

(***************************************************************************)
(* C16.  Unknown sites never enter the cache: for a site without           *)
(* configuration the pipeline fails whatever the upstream would answer,    *)
(* and a call naming such a site never fetches and answers with that       *)
(* error; no refresh runs for such a site; and the keys of the cache are   *)
(* always sites of the registry.                                           *)
(***************************************************************************)
Known(site) == site \in DOMAIN getAllSiteConfig

C16_UnknownSitesNeverCached ==
    /\ \A site \in RequestSites :
          ~Known(site)
              => \A fetched \in {FetchFailed} \cup {Fetched(d) : d \in SiteDocs(site)} :
                    fetchAndGenerateRSS(site, fetched)
                        = [err |-> "site configuration not found", feed |-> NoFeed]
    /\ \A q \in Calls :
          ~Known(q.site)
              => /\ q.fetches = 0
                 /\ ~InPipeline(q)
                 /\ q.spawned = 0
                 /\ ~q.ok
                 /\ (q.pc = "done" /\ q.site # "")
                       => /\ q.resp = [status |-> 500, feed |-> NoFeed]
                          /\ q.err = "site configuration not found"
    /\ \A r \in Running : Known(r.site)
    /\ DOMAIN cache \subseteq DOMAIN getAllSiteConfig

\* a call for a site without configuration has been refused while the
\* cache holds the entries of the registry's sites
C16_Witness ==
    /\ \E q \in Calls :
          /\ q.pc = "done"
          /\ q.site = "nosuch"
          /\ q.resp.status = 500
          /\ q.err = "site configuration not found"
          /\ q.fetches = 0
    /\ DOMAIN cache = DOMAIN getAllSiteConfig

(***************************************************************************)
(* C17.  No torn reads: the lookup is made with the read lock held and no  *)
(* writer inside, and copies the entry the map holds; every entry of the   *)
(* map, and so every copy, is a feed a successful pipeline run produces    *)
(* for that site, stored whole; a call that hits answers with its copy,    *)
(* whatever the map holds by then; and an install changes no call's copy.  *)
(***************************************************************************)
Hit(q) == q.pc = "done" /\ q.path \in {"fresh", "stale"}

C17_NoTornReads ==
    /\ [](\A q \in Calls : IsReading(q) => cacheLock.readers >= 1 /\ ~cacheLock.writer)
    /\ [][\A q \in Calls :
             (Acts(q) /\ IsReading(q))
                 => Becomes(q, [q EXCEPT !.pc = "check",
                                         !.ok = (q.site \in DOMAIN cache),
                                         !.cached = IF q.site \in DOMAIN cache
                                                    THEN cache[q.site]
                                                    ELSE NoEntry])]_vars
    /\ [](\A s \in DOMAIN cache : cache[s].Feed \in ProducibleFeeds(s))
    /\ [](\A q \in Calls : q.ok => q.cached.Feed \in ProducibleFeeds(q.site))
    /\ [](\A q \in Calls :
             Hit(q) => /\ q.ok
                       /\ q.resp = [status |-> 200, feed |-> q.cached.Feed])
    /\ [][\A q \in Calls :
             (Acts(q) /\ q.pc = "check" /\ q.ok)
                 => \E path \in {"fresh", "stale"} : \E n \in {0, 1} :
                       Becomes(q, [q EXCEPT !.pc = "done", !.path = path,
                                            !.spawned = @ + n,
                                            !.resp = [status |-> 200,
                                                      feed |-> q.cached.Feed]])]_vars
    /\ [][cache' # cache => requests' = requests]_vars

\* a call has answered with the feed it copied, and the map holds another
\* feed for the site, installed after the copy was taken
C17_Witness ==
    \E q \in Calls :
       /\ Hit(q)
       /\ q.resp.feed = q.cached.Feed
       /\ q.site \in DOMAIN cache
       /\ cache[q.site].Feed # q.cached.Feed
       /\ cache[q.site].ExpireAt > q.cached.ExpireAt

(***************************************************************************)
(* C18.  Pipeline is cache-neutral: the step in which a call or a refresh  *)
(* enters the pipeline and the step in which the pipeline returns to it,   *)
(* with a feed or with an error, leave the cache as it was; they leave the *)
(* lock as it was too, but for the Lock() of refreshCache that follows a   *)
(* successful return; and the cache is written only by the install of a    *)
(* refresh, the pipeline's caller, after the run has returned.             *)
(***************************************************************************)
C18_PipelineCacheNeutral ==
    /\ [][\A q \in Calls :
             (Acts(q) /\ ((q.pc = "check" /\ ~q.ok) \/ InPipeline(q)))
                 => cache' = cache /\ cacheLock' = cacheLock]_vars
    /\ [][\A r \in Running :
             (ActsR(r) /\ r.pc = "start")
                 => cache' = cache /\ cacheLock' = cacheLock]_vars
    /\ [][\A r \in Running :
             (ActsR(r) /\ InPipeline(r))
                 => /\ cache' = cache
                    /\ cacheLock'.readers = cacheLock.readers
                    /\ cacheLock' # cacheLock
                          => /\ cacheLock'.writer
                             /\ \E feed \in ProducibleFeeds(r.site) :
                                   refreshers' = Step(refreshers, r,
                                       [r EXCEPT !.pc = "install", !.feed = feed,
                                                 !.seq = NextSeq(r.site)])]_vars
    /\ [][cache' # cache
            => \E r \in Running :
                  /\ ActsR(r)
                  /\ IsInstalling(r)
                  /\ r.fetches = 1
                  /\ cache' = InstallEntry(cache, r.site, r.feed, now)]_vars

\* with both entries in the cache a call has run the pipeline and failed,
\* a call is inside the pipeline, and so is a refresh
C18_Witness ==
    /\ DOMAIN cache = DOMAIN getAllSiteConfig
    /\ \E q \in Calls : q.pc = "done" /\ q.path = "miss" /\ q.resp.status = 500
    /\ \E q \in Calls : InPipeline(q)
    /\ \E r \in Running : InPipeline(r)

(***************************************************************************)
(* C19.  Expiry never moves backwards: under the clock of the model,      *)
(* which never goes back, the cache is written only with the write lock    *)
(* held, the entry written expiring TTL after the time of that step; and   *)
(* in every step the expiry of every site's entry stays or grows, also     *)
(* when the refresh that installs is one whose fetch answered before that  *)
(* of the refresh that installed the entry in place.                       *)
(***************************************************************************)
C19_ExpiryMonotonic ==
    /\ [][cache' # cache
            => /\ cacheLock.writer
               /\ \E s \in DOMAIN cache' :
                     /\ cache'[s].ExpireAt = now + TTL
                     /\ \A u \in DOMAIN cache \ {s} : cache'[u] = cache[u]]_vars
    /\ [][\A s \in DOMAIN cache :
             /\ s \in DOMAIN cache'
             /\ cache'[s].ExpireAt >= cache[s].ExpireAt]_vars

\* the entry a call once copied, expiring at TTL, has been replaced by one
\* expiring at twice that, installed by a refresh that overtook the one now
\* holding the lock to install in its turn
C19_Witness ==
    \E q \in Calls : \E r \in Running :
       /\ q.ok
       /\ q.cached.ExpireAt = TTL
       /\ r.site = q.site
       /\ IsInstalling(r)
       /\ r.overtakenBy # ""
       /\ cache[q.site].ExpireAt = 2 * TTL
       /\ now = TTL

====
